---- MODULE Spec2Model ----
(***************************************************************************)
(* A model of simple-trpc-openapi: the schema introspector (utility.ts),   *)
(* the document builder with its nullable-union sanitizer, the form/query  *)
(* coercer and the request translator (index.ts).                          *)
(*                                                                         *)
(* JavaScript values are records tagged by field t; zod schemas are        *)
(* records carrying the _def.typeName discriminator; text that is parsed   *)
(* or encoded is a sequence of one-character strings.                      *)
(***************************************************************************)
EXTENDS Integers, Sequences, FiniteSets, TLC

VARIABLES
    \* unwrap (utility.ts)
    uArg, uLeaf, uDepth, uCur, uSteps, uPc,
    \* preprocessFormData (index.ts)
    fSchema, fSource, fOut,
    \* createTRPCOpenApiDoc (index.ts)
    pc, registry, baseUrl, idx, paths, schemas, openApiToTRPCPaths, spec,
    \* simpleTRPCOpenApiRequestHandler (index.ts)
    hCall

unwrapVars == <<uArg, uLeaf, uDepth, uCur, uSteps, uPc>>
formVars == <<fSchema, fSource, fOut>>
docVars == <<pc, registry, baseUrl, idx, paths, schemas, openApiToTRPCPaths, spec>>
handlerVars == <<hCall>>
vars == <<unwrapVars, formVars, docVars, handlerVars>>

----------------------------------------------------------------------------
(* Bounds *)

\* wrapper layers put around a leaf schema
MaxWrap == 3
\* (key, value) pairs in a form or query source
MaxPairs == 2
\* procedures in a router
MaxProcs == 2

----------------------------------------------------------------------------
(* zod schemas: [typeName |-> kind, ...] with the fields of that kind's    *)
(* _def: innerType (optional, nullable), schema (effects), type (array),   *)
(* shape (object), and the zod-openapi annotation openapi when present.    *)

\* the JavaScript value undefined
Undefined == [t |-> "undefined"]

ZString == [typeName |-> "ZodString"]
ZNumber == [typeName |-> "ZodNumber"]
ZBoolean == [typeName |-> "ZodBoolean"]
ZVoid == [typeName |-> "ZodVoid"]
ZArray(elem) == [typeName |-> "ZodArray", type |-> elem]
ZObject(shape) == [typeName |-> "ZodObject", shape |-> shape]
ZOptional(inner) == [typeName |-> "ZodOptional", innerType |-> inner]
ZNullable(inner) == [typeName |-> "ZodNullable", innerType |-> inner]
ZEffects(inner) == [typeName |-> "ZodEffects", schema |-> inner]

WrapperKinds == {"ZodOptional", "ZodNullable", "ZodEffects"}

Wrap(kind, inner) ==
    CASE kind = "ZodOptional" -> ZOptional(inner)
      [] kind = "ZodNullable" -> ZNullable(inner)
      [] OTHER -> ZEffects(inner)

\* type?._def?.typeName: undefined when the value carries no _def
getZodType(type) ==
    IF "typeName" \in DOMAIN type THEN type.typeName ELSE "undefined"

isZodType(type, typeName) == getZodType(type) = typeName

\* unwrap without its ZodEffects case
unwrapBranchEffectsUnhandled(v) ==
    IF isZodType(v, "ZodOptional") \/ isZodType(v, "ZodNullable")
    THEN "unwrap"
    ELSE "leaf"

\* which branch of unwrap a schema takes
unwrapBranch(v) ==
    IF isZodType(v, "ZodOptional") \/ isZodType(v, "ZodNullable")
    THEN "unwrap"
    ELSE IF isZodType(v, "ZodEffects")
         THEN "schema"
         ELSE "leaf"

\* the argument of unwrap's recursive call: v.unwrap() or v._def.schema
unwrapInner(v) ==
    IF unwrapBranch(v) = "unwrap" THEN v.innerType ELSE v.schema

RECURSIVE unwrap(_)
unwrap(v) ==
    IF unwrapBranch(v) = "leaf" THEN v ELSE unwrap(unwrapInner(v))

\* processProcedureSchema: a void schema counts as no schema
processProcedureSchema(type) ==
    IF getZodType(type) = "ZodVoid" THEN Undefined ELSE type

----------------------------------------------------------------------------
(* JavaScript values.  Text is a sequence of one-character strings.  An    *)
(* array that holds itself (the array stored at data[key] pushed onto      *)
(* itself) holds Ref(key) at that place.                                   *)

Str(s) == [t |-> "string", s |-> s]
Num(n) == [t |-> "number", n |-> n]
NaN == [t |-> "NaN"]
Bool(b) == [t |-> "boolean", b |-> b]
Null == [t |-> "null"]
Arr(a) == [t |-> "array", a |-> a]
Ref(k) == [t |-> "ref", k |-> k]
\* a property key handed around as a value (string | undefined)
Key(k) == [t |-> "key", k |-> k]

\* the string made of the characters of a text
RECURSIVE Join(_)
Join(cs) == IF cs = <<>> THEN "" ELSE Head(cs) \o Join(Tail(cs))

DigitChars == {"0", "1", "2", "3", "4", "5", "6", "7", "8", "9"}
DigitVal(c) ==
    CASE c = "0" -> 0 [] c = "1" -> 1 [] c = "2" -> 2 [] c = "3" -> 3
      [] c = "4" -> 4 [] c = "5" -> 5 [] c = "6" -> 6 [] c = "7" -> 7
      [] c = "8" -> 8 [] c = "9" -> 9

RECURSIVE DigitsValue(_)
DigitsValue(cs) ==
    IF cs = <<>> THEN 0
    ELSE 10 * DigitsValue(SubSeq(cs, 1, Len(cs) - 1)) + DigitVal(cs[Len(cs)])

AllDigits(cs) == cs # <<>> /\ \A i \in 1..Len(cs) : cs[i] \in DigitChars

RECURSIVE TrimLeft(_)
TrimLeft(cs) ==
    IF cs # <<>> /\ cs[1] = " " THEN TrimLeft(Tail(cs)) ELSE cs

RECURSIVE TrimRight(_)
TrimRight(cs) ==
    IF cs # <<>> /\ cs[Len(cs)] = " "
    THEN TrimRight(SubSeq(cs, 1, Len(cs) - 1))
    ELSE cs

Trim(cs) == TrimRight(TrimLeft(cs))

\* JSON's number grammar without fraction and exponent: -?(0|[1-9][0-9]*)
IsJSONInt(cs) ==
    LET ds == IF cs # <<>> /\ cs[1] = "-" THEN Tail(cs) ELSE cs
    IN  AllDigits(ds) /\ (Len(ds) = 1 \/ ds[1] # "0")

JSONIntValue(cs) ==
    IF cs[1] = "-" THEN 0 - DigitsValue(Tail(cs)) ELSE DigitsValue(cs)

\* a JSON string literal without escapes
IsJSONString(cs) ==
    /\ Len(cs) >= 2
    /\ cs[1] = "\"" /\ cs[Len(cs)] = "\""
    /\ \A i \in 2..(Len(cs) - 1) : cs[i] \notin {"\"", "\\"}

\* JSON.parse on text without fractions, exponents, escapes, arrays and
\* objects: [ok |-> parsed?, v |-> the value]
JSONParse(cs) ==
    LET b == Trim(cs)
    IN  CASE b = <<"t", "r", "u", "e">> -> [ok |-> TRUE, v |-> Bool(TRUE)]
          [] b = <<"f", "a", "l", "s", "e">> -> [ok |-> TRUE, v |-> Bool(FALSE)]
          [] b = <<"n", "u", "l", "l">> -> [ok |-> TRUE, v |-> Null]
          [] IsJSONInt(b) -> [ok |-> TRUE, v |-> Num(JSONIntValue(b))]
          [] IsJSONString(b) -> [ok |-> TRUE, v |-> Str(SubSeq(b, 2, Len(b) - 1))]
          [] OTHER -> [ok |-> FALSE, v |-> Undefined]

\* lines 212-216: try { value = JSON.parse(value) } catch {}
parseIfString(value) ==
    IF value.t = "string"
    THEN LET r == JSONParse(value.s) IN IF r.ok THEN r.v ELSE value
    ELSE value

\* Number(string): StringToNumber on text without fractions and exponents
StringToNumber(cs) ==
    LET b == Trim(cs)
        ds == IF b # <<>> /\ b[1] \in {"-", "+"} THEN Tail(b) ELSE b
    IN  IF b = <<>> THEN Num(0)
        ELSE IF AllDigits(ds)
             THEN Num(IF b[1] = "-" THEN 0 - DigitsValue(ds) ELSE DigitsValue(ds))
             ELSE NaN

\* Number(value)
ToNumber(value) ==
    CASE value.t = "number" -> value
      [] value.t = "NaN" -> NaN
      [] value.t = "boolean" -> Num(IF value.b THEN 1 ELSE 0)
      [] value.t = "null" -> Num(0)
      [] value.t = "undefined" -> NaN
      [] value.t = "string" -> StringToNumber(value.s)

----------------------------------------------------------------------------
(* preprocessFormData.  data is the object under construction: a sequence  *)
(* of [k, v] entries in insertion order, k the text of the property name.  *)
(* A call ends in                                                          *)
(* [err |-> "none", data |-> ..] or with err naming what was thrown.       *)
(* data is a plain object ({} at line 209) and so are schema.shape and the *)
(* inner objects of openApiToTRPCPaths: a read of a name they do not own   *)
(* finds the member of that name on Object.prototype.                      *)

\* names every plain object inherits from Object.prototype
ObjectPrototypeKeys ==
    { "constructor", "__proto__", "hasOwnProperty", "isPrototypeOf",
      "propertyIsEnumerable", "toLocaleString", "toString", "valueOf",
      "__defineGetter__", "__defineSetter__", "__lookupGetter__",
      "__lookupSetter__" }

\* an inherited member: not undefined, not an array, without _def
Inherited(k) == [t |-> "inherited", k |-> k]

\* the own entries of data
HasKey(data, k) == \E i \in 1..Len(data) : data[i].k = k
Get(data, k) == data[CHOOSE i \in 1..Len(data) : data[i].k = k].v

\* data[key] = v; an own entry is created or replaced (no schema here
\* declares __proto__, the one name whose assignment is not a plain write)
Set(data, k, v) ==
    IF HasKey(data, k)
    THEN [i \in 1..Len(data) |-> IF data[i].k = k THEN [k |-> k, v |-> v] ELSE data[i]]
    ELSE Append(data, [k |-> k, v |-> v])

\* the value read by data[key] (lines 231-238): the own entry, else the
\* member inherited from Object.prototype, else undefined
dataAt(data, k) ==
    IF HasKey(data, k) THEN Get(data, k)
    ELSE IF Join(k) \in ObjectPrototypeKeys THEN Inherited(Join(k))
    ELSE Undefined

\* key in schema.shape (line 245): own and inherited properties
keyInShape(key, shape) ==
    key \in DOMAIN shape \/ key \in ObjectPrototypeKeys

\* schema.shape[key] (line 249)
shapeAt(shape, key) ==
    IF key \in DOMAIN shape THEN shape[key] ELSE Inherited(key)

\* the recursive call made without its key
elementKeyUndefined(key) == Undefined

\* the key handed to the recursive call for an array element (line 236)
elementKey(key) == key

Thrown(e) == [err |-> e, data |-> <<>>, ret |-> Undefined]

RECURSIVE coerceFormValue(_, _, _, _)
coerceFormValue(data, key, value0, schema) ==
    LET value == parseIfString(value0)
    IN  IF "typeName" \notin DOMAIN schema
        THEN Thrown("TypeError: Cannot read properties of undefined")
        ELSE IF schema.typeName = "ZodNumber"
        THEN [err |-> "none", data |-> data, ret |-> ToNumber(value)]
        ELSE IF schema.typeName = "ZodBoolean"
        THEN [err |-> "none", data |-> data,
              ret |-> Bool(value = Str(<<"t", "r", "u", "e">>) \/ value = Bool(TRUE))]
        ELSE IF schema.typeName = "ZodArray"
        THEN IF key = Undefined
             THEN Thrown("Nested arrays are not supported")
             ELSE IF dataAt(data, key.k) # Undefined /\ dataAt(data, key.k).t # "array"
             THEN Thrown("Expected array for key " \o Join(key.k))
             ELSE LET d1 == IF dataAt(data, key.k) # Undefined THEN data
                            ELSE Set(data, key.k, Arr(<<>>))
                      r == coerceFormValue(d1, elementKey(key), value,
                                           unwrap(schema.type))
                  IN  IF r.err # "none" THEN r
                      ELSE [err |-> "none",
                            data |-> Set(r.data, key.k,
                                         Arr(Append(Get(r.data, key.k).a, r.ret))),
                            ret |-> Ref(key.k)]
        ELSE [err |-> "none", data |-> data, ret |-> value]

\* one callback of formData.forEach (lines 244-251); pair.key and
\* pair.value are text, Join(pair.key) is the property name
forEachPair(acc, pair, schema) ==
    IF acc.err # "none" THEN acc
    ELSE IF "shape" \notin DOMAIN schema
    THEN [err |-> "TypeError: Cannot use 'in' operator", data |-> <<>>]
    ELSE IF ~keyInShape(Join(pair.key), schema.shape) THEN acc
    ELSE LET zodKey == unwrap(shapeAt(schema.shape, Join(pair.key)))
             r == coerceFormValue(acc.data, Key(pair.key), Str(pair.value), zodKey)
         IN  IF r.err # "none" THEN [err |-> r.err, data |-> <<>>]
             ELSE IF r.ret = Ref(pair.key)
                  THEN [err |-> "none", data |-> r.data]
                  ELSE [err |-> "none", data |-> Set(r.data, pair.key, r.ret)]

RECURSIVE forEach(_, _, _)
forEach(acc, source, schema) ==
    IF source = <<>> THEN acc
    ELSE forEach(forEachPair(acc, Head(source), schema), Tail(source), schema)

preprocessFormData(formData, schema) ==
    forEach([err |-> "none", data |-> <<>>], formData, schema)

----------------------------------------------------------------------------
(* preprocessFormData called on a source built pair by pair *)

Text42 == <<"4", "2">>
Text1 == <<"1">>
Text2 == <<"2">>
TextTrue == <<"t", "r", "u", "e">>
TextFalse == <<"f", "a", "l", "s", "e">>
TextAbc == <<"a", "b", "c">>
TextSpaceTrue == <<" ", "t", "r", "u", "e">>

FormTexts == {Text42, Text1, Text2, TextTrue, TextFalse, TextAbc, TextSpaceTrue}

FormSchemaScalars ==
    ZObject([n |-> ZOptional(ZNumber), b |-> ZNullable(ZBoolean), s |-> ZString])
FormSchemaArrays ==
    ZObject([tags |-> ZOptional(ZArray(ZNumber)), grid |-> ZArray(ZArray(ZNumber))])

\* properties named like members of Object.prototype
FormSchemaInherited ==
    ZObject([toString |-> ZArray(ZNumber), constructor |-> ZNumber])

FormSchemas == {FormSchemaScalars, FormSchemaArrays, FormSchemaInherited}

KeyN == <<"n">>
KeyB == <<"b">>
KeyS == <<"s">>
KeyTags == <<"t", "a", "g", "s">>
KeyGrid == <<"g", "r", "i", "d">>
KeyExtra == <<"e", "x", "t", "r", "a">>
KeyConstructor == <<"c", "o", "n", "s", "t", "r", "u", "c", "t", "o", "r">>
KeyToString == <<"t", "o", "S", "t", "r", "i", "n", "g">>

\* keys a client may send: the declared ones, an undeclared one and a name
\* every object inherits
FormKeys(schema) ==
    { k \in {KeyN, KeyB, KeyS, KeyTags, KeyGrid, KeyToString} :
          Join(k) \in DOMAIN schema.shape }
    \cup {KeyExtra, KeyConstructor}

Pending == [err |-> "pending", data |-> <<>>]

InitForm ==
    /\ fSchema \in FormSchemas
    /\ fSource = <<>>
    /\ fOut = Pending

\* formData.append(key, value) by the caller
FormAppend ==
    /\ fOut = Pending
    /\ Len(fSource) < MaxPairs
    /\ \E key \in FormKeys(fSchema), value \in FormTexts :
           fSource' = Append(fSource, [key |-> key, value |-> value])
    /\ UNCHANGED <<fSchema, fOut>>

FormCall ==
    /\ fOut = Pending
    /\ fOut' = preprocessFormData(fSource, fSchema)
    /\ UNCHANGED <<fSchema, fSource>>

----------------------------------------------------------------------------
(* createTRPCOpenApiDoc.  A JavaScript object with optional properties is  *)
(* a function on the names it has; {} is the empty function <<>>.          *)

Methods == {"get", "post", "put", "delete"}

\* input?._def.zodOpenApi?.openapi
openApiOf(schema) ==
    IF "openapi" \in DOMAIN schema THEN schema.openapi ELSE <<>>

\* truthiness of inputOpenApi?.title
hasTitle(schema) ==
    schema # Undefined
    /\ "title" \in DOMAIN openApiOf(schema)
    /\ openApiOf(schema).title # ""

\* procedure._def.meta?.openapi is set
hasOpenapiMeta(procedure) == "openapi" \in DOMAIN procedure.meta

\* procedure._def.inputs.at(0)
firstInput(procedure) ==
    IF procedure.inputs = <<>> THEN Undefined ELSE procedure.inputs[1]

\* obj[k1] ||= {}; obj[k1][k2] ||= v
put2KeepFirst(obj, k1, k2, v) ==
    LET inner == IF k1 \in DOMAIN obj THEN obj[k1] ELSE <<>>
    IN  (k1 :> (inner @@ (k2 :> v))) @@ obj

\* obj[k1] ||= {}; obj[k1][k2] = v (k1 starts with "/": an own entry)
put2(obj, k1, k2, v) ==
    LET inner == IF k1 \in DOMAIN obj THEN obj[k1] ELSE <<>>
    IN  (k1 :> ((k2 :> v) @@ inner)) @@ obj

\* obj[k1][k2] is an entry written by put2
has2(obj, k1, k2) == k1 \in DOMAIN obj /\ k2 \in DOMAIN obj[k1]

\* lines 58-64 placed before the check of the routing metadata
registerSchemasUnconditionally(table, procedure) ==
    LET input == processProcedureSchema(firstInput(procedure))
        output == processProcedureSchema(procedure.output)
        t1 == IF hasTitle(input)
              THEN (openApiOf(input).title :> input) @@ table ELSE table
    IN  IF hasTitle(output)
        THEN (openApiOf(output).title :> output) @@ t1 ELSE t1

\* lines 48-64: the component schema table after one procedure
registerSchemas(table, procedure) ==
    IF ~hasOpenapiMeta(procedure) THEN table
    ELSE LET input == processProcedureSchema(firstInput(procedure))
             output == processProcedureSchema(procedure.output)
             t1 == IF hasTitle(input)
                   THEN (openApiOf(input).title :> input) @@ table ELSE table
         IN  IF hasTitle(output)
             THEN (openApiOf(output).title :> output) @@ t1 ELSE t1

\* lines 66-71
requestParamsOf(method, input) ==
    IF method = "get" /\ input # Undefined THEN ("query" :> input) ELSE <<>>

\* line 84
inputContentTypeOf(input) ==
    IF "contentMediaType" \in DOMAIN openApiOf(input)
    THEN openApiOf(input).contentMediaType
    ELSE "application/json"

\* lines 86-98
encodingOf(input) ==
    LET unwrappedInput == unwrap(input)
    IN  IF isZodType(unwrappedInput, "ZodObject")
           /\ inputContentTypeOf(input) = "multipart/form-data"
        THEN LET exploded == { key \in DOMAIN unwrappedInput.shape :
                                 isZodType(unwrap(unwrappedInput.shape[key]), "ZodArray") }
             IN  [key \in exploded |-> [explode |-> TRUE]]
        ELSE <<>>

\* lines 73-108; {} when the request body is undefined
requestBodyOf(method, input) ==
    IF method = "get" THEN <<>>
    ELSE IF input = Undefined
    THEN ("requestBody" :> [content |-> ("application/json" :> <<>>)])
    ELSE ("requestBody" :>
            [content |-> (inputContentTypeOf(input) :>
                            [schema |-> input, encoding |-> encodingOf(input)])])

\* lines 110-125
responsesOf(output) ==
    IF output # Undefined
    THEN [default |->
            [description |-> "Successful response",
             content |-> ("application/json" :>
                [schema |-> ZObject([result |-> ZObject([data |-> output])])])]]
    ELSE <<>>

\* lines 129-133: the path item of an annotated procedure
pathItemOf(procedure) ==
    LET method == procedure.meta.openapi.method
        input == processProcedureSchema(firstInput(procedure))
        output == processProcedureSchema(procedure.output)
        params == requestParamsOf(method, input)
    IN  requestBodyOf(method, input)
        @@ (IF params # <<>> THEN ("requestParams" :> params) ELSE <<>>)
        @@ ("responses" :> responsesOf(output))

\* new URL(opts.url).pathname: an empty path is "/"
urlPathname(url) == IF url.path = "" THEN "/" ELSE url.path

\* the key built from the procedure's path alone
reverseKeyWithoutBase(url, path) == path

\* line 135: `${url.pathname}${openapiMeta.path}`
reverseKey(url, path) == urlPathname(url) \o path

\* lines 127-133
pathsAfter(table, procedure) ==
    IF ~hasOpenapiMeta(procedure) THEN table
    ELSE put2(table, procedure.meta.openapi.path, procedure.meta.openapi.method,
              pathItemOf(procedure))

\* an entry already present is kept
reverseLookupPutKeepFirst(table, key, method, name) ==
    put2KeepFirst(table, key, method, name)

\* lines 136-137
reverseLookupPut(table, key, method, name) == put2(table, key, method, name)

\* lines 135-137
reverseLookupAfter(table, url, procedure) ==
    IF ~hasOpenapiMeta(procedure) THEN table
    ELSE reverseLookupPut(table,
                          reverseKey(url, procedure.meta.openapi.path),
                          procedure.meta.openapi.method, procedure.name)

----------------------------------------------------------------------------
(* createDocument of zod-openapi (called at lines 140-159), for the        *)
(* schemas of this model under openapi 3.1.0: a schema registered in       *)
(* components.schemas is rendered as a $ref, an optional property is not   *)
(* required, and a nullable schema gets the type array [T, "null"].        *)
(* A type is [isArray |-> is it an array of names, names |-> the names].   *)

Single(name) == [isArray |-> FALSE, names |-> <<name>>]

isRegistered(schema, table) == \E title \in DOMAIN table : table[title] = schema
titleIn(schema, table) == CHOOSE title \in DOMAIN table : table[title] = schema

RECURSIVE renderSchema(_, _)
renderSchema(s, table) ==
    IF isRegistered(s, table)
    THEN ("$ref" :> ("#/components/schemas/" \o titleIn(s, table)))
    ELSE CASE s.typeName = "ZodString" -> [type |-> Single("string")]
           [] s.typeName = "ZodNumber" -> [type |-> Single("number")]
           [] s.typeName = "ZodBoolean" -> [type |-> Single("boolean")]
           [] s.typeName = "ZodArray" ->
                [type |-> Single("array"), items |-> renderSchema(s.type, table)]
           [] s.typeName = "ZodObject" ->
                [type |-> Single("object"),
                 properties |-> [k \in DOMAIN s.shape |-> renderSchema(s.shape[k], table)]]
           [] s.typeName = "ZodOptional" -> renderSchema(s.innerType, table)
           [] s.typeName = "ZodEffects" -> renderSchema(s.schema, table)
           [] s.typeName = "ZodNullable" ->
                LET r == renderSchema(s.innerType, table)
                IN  IF "type" \in DOMAIN r
                    THEN [r EXCEPT !.type = [isArray |-> TRUE,
                                             names |-> Append(r.type.names, "null")]]
                    ELSE [oneOf |-> <<r, [type |-> Single("null")]>>]

RECURSIVE isOptionalSchema(_)
isOptionalSchema(s) ==
    CASE s.typeName = "ZodOptional" -> TRUE
      [] s.typeName = "ZodNullable" -> isOptionalSchema(s.innerType)
      [] s.typeName = "ZodEffects" -> isOptionalSchema(s.schema)
      [] OTHER -> FALSE

\* the parameters of a query object, by name; the key required is
\* written, as true, for a property that is not optional and left out
\* for an optional one
renderParameters(query, table) ==
    [k \in DOMAIN query.shape |->
        (IF isOptionalSchema(query.shape[k]) THEN <<>> ELSE ("required" :> TRUE))
        @@ [name |-> k, in |-> "query",
            schema |-> renderSchema(query.shape[k], table)]]

renderMedia(media, table) ==
    IF "schema" \in DOMAIN media
    THEN [media EXCEPT !.schema = renderSchema(media.schema, table)]
    ELSE media

renderContent(content, table) ==
    [ct \in DOMAIN content |-> renderMedia(content[ct], table)]

renderOperation(item, table) ==
    (IF "requestBody" \in DOMAIN item
     THEN ("requestBody" :>
             [content |-> renderContent(item.requestBody.content, table)])
     ELSE <<>>)
    @@ (IF "requestParams" \in DOMAIN item
        THEN ("parameters" :> renderParameters(item.requestParams.query, table))
        ELSE <<>>)
    @@ ("responses" :>
          [r \in DOMAIN item.responses |->
              [item.responses[r] EXCEPT
                  !.content = renderContent(item.responses[r].content, table)]])

createDocument(pathTable, table) ==
    [openapi |-> "3.1.0",
     paths |-> [p \in DOMAIN pathTable |->
                  [m \in DOMAIN pathTable[p] |-> renderOperation(pathTable[p][m], table)]],
     components |-> [schemas |-> [title \in DOMAIN table |-> renderSchema(table[title], <<>>)]]]

----------------------------------------------------------------------------
(* The nullable-union pass, lines 161-197 *)

isReferenceObject(obj) == "$ref" \in DOMAIN obj

\* Array.isArray(schema.type) && schema.type.includes("null")
hasNullUnion(schema) ==
    /\ "type" \in DOMAIN schema
    /\ schema.type.isArray
    /\ \E i \in 1..Len(schema.type.names) : schema.type.names[i] = "null"

\* lines 164-165
filteredType(type) ==
    LET filteredTypes == SelectSeq(type.names, LAMBDA name : name # "null")
    IN  [isArray |-> Len(filteredTypes) # 1, names |-> filteredTypes]

\* sanitizeSchema(schema): lines 162-166
sanitizeSchema(schema) ==
    IF hasNullUnion(schema)
    THEN [schema EXCEPT !.type = filteredType(schema.type)]
    ELSE schema

\* sanitizeSchema(parameter.schema, parameter): lines 179-181; the
\* assignment parameter.required = false (line 168) creates the key on a
\* parameter that has none
sanitizeParameter(parameter) ==
    IF ~isReferenceObject(parameter)
       /\ "schema" \in DOMAIN parameter
       /\ ~isReferenceObject(parameter.schema)
    THEN IF hasNullUnion(parameter.schema)
         THEN ("required" :> FALSE)
              @@ [parameter EXCEPT !.schema = sanitizeSchema(parameter.schema)]
         ELSE parameter
    ELSE parameter

\* lines 175-183
sanitizeGet(pathSpec) ==
    IF "get" \in DOMAIN pathSpec /\ "parameters" \in DOMAIN pathSpec.get
    THEN [pathSpec EXCEPT !.get.parameters =
            [k \in DOMAIN pathSpec.get.parameters |->
                sanitizeParameter(pathSpec.get.parameters[k])]]
    ELSE pathSpec

\* lines 187-195
sanitizeMultipart(content) ==
    IF "multipart/form-data" \in DOMAIN content
       /\ "schema" \in DOMAIN content["multipart/form-data"]
       /\ ~isReferenceObject(content["multipart/form-data"].schema)
       /\ "properties" \in DOMAIN content["multipart/form-data"].schema
    THEN LET properties == content["multipart/form-data"].schema.properties
         IN  [content EXCEPT !["multipart/form-data"].schema.properties =
                [k \in DOMAIN properties |->
                    IF isReferenceObject(properties[k]) THEN properties[k]
                    ELSE sanitizeSchema(properties[k])]]
    ELSE content

\* lines 185-196
sanitizePost(pathSpec) ==
    IF "post" \in DOMAIN pathSpec
       /\ "requestBody" \in DOMAIN pathSpec.post
       /\ ~isReferenceObject(pathSpec.post.requestBody)
       /\ "content" \in DOMAIN pathSpec.post.requestBody
    THEN [pathSpec EXCEPT !.post.requestBody.content =
            sanitizeMultipart(pathSpec.post.requestBody.content)]
    ELSE pathSpec

\* the loop over spec.paths, lines 161-197
sanitizeDocument(doc) ==
    [doc EXCEPT !.paths = [p \in DOMAIN doc.paths |-> sanitizePost(sanitizeGet(doc.paths[p]))]]

----------------------------------------------------------------------------
(* Routers and the steps of createTRPCOpenApiDoc *)

Annotated(schema, openapi) == schema @@ [openapi |-> openapi]

InGreet == ZObject([name |-> ZString])
InSearch ==
    Annotated(ZObject([q |-> ZNullable(ZString),
                       nr |-> ZOptional(ZNullable(ZString)),
                       tags |-> ZOptional(ZArray(ZNumber))]),
              [title |-> "Search"])
InUpload ==
    Annotated(ZObject([note |-> ZNullable(ZString), tags |-> ZArray(ZString)]),
              [contentMediaType |-> "multipart/form-data"])
OutMessage == Annotated(ZObject([message |-> ZString]), [title |-> "Message"])

\* the input and output schemas a procedure is declared with
ProcSchemas ==
    { [inputs |-> <<>>, output |-> Undefined],
      [inputs |-> <<InGreet>>, output |-> OutMessage],
      [inputs |-> <<InSearch>>, output |-> Undefined],
      [inputs |-> <<InUpload>>, output |-> ZVoid],
      [inputs |-> <<ZVoid>>, output |-> OutMessage] }

Meta(path, method) == [openapi |-> [path |-> path, method |-> method]]

ProcMetas ==
    { <<>>, Meta("/x", "get"), Meta("/x", "post"), Meta("/x", "put"),
      Meta("/y", "get"), Meta("/y", "delete") }

\* the keys of router._def.procedures, in insertion order
ProcNames == <<"greet", "upload", "ping", "echo">>

BaseUrls == { [origin |-> "https://h", path |-> "/api"],
              [origin |-> "https://h", path |-> ""] }

InitDoc ==
    /\ pc = "idle"
    /\ registry = <<>>
    /\ baseUrl = Undefined
    /\ idx = 0
    /\ paths = <<>>
    /\ schemas = <<>>
    /\ openApiToTRPCPaths = <<>>
    /\ spec = <<>>

\* the caller declares one more procedure of the router
RouterAdd ==
    /\ pc = "idle"
    /\ Len(registry) < MaxProcs
    /\ \E meta \in ProcMetas, io \in ProcSchemas :
           registry' = Append(registry,
                              [name |-> ProcNames[Len(registry) + 1], meta |-> meta,
                               inputs |-> io.inputs, output |-> io.output])
    /\ UNCHANGED <<pc, baseUrl, idx, paths, schemas, openApiToTRPCPaths, spec>>

\* createTRPCOpenApiDoc({router, url, info}): lines 42-44
CreateDocCall ==
    /\ pc = "idle"
    /\ \E url \in BaseUrls : baseUrl' = url
    /\ pc' = "build"
    /\ idx' = 1
    /\ UNCHANGED <<registry, paths, schemas, openApiToTRPCPaths, spec>>

\* one iteration of the loop over the procedures: lines 46-138
BuildStep ==
    /\ pc = "build"
    /\ idx <= Len(registry)
    /\ schemas' = registerSchemas(schemas, registry[idx])
    /\ paths' = pathsAfter(paths, registry[idx])
    /\ openApiToTRPCPaths' = reverseLookupAfter(openApiToTRPCPaths, baseUrl, registry[idx])
    /\ idx' = idx + 1
    /\ UNCHANGED <<pc, registry, baseUrl, spec>>

\* lines 140-159
Assemble ==
    /\ pc = "build"
    /\ idx > Len(registry)
    /\ spec' = createDocument(paths, schemas)
    /\ pc' = "sanitize"
    /\ UNCHANGED <<registry, baseUrl, idx, paths, schemas, openApiToTRPCPaths>>

\* lines 161-203
SanitizeAndReturn ==
    /\ pc = "sanitize"
    /\ spec' = sanitizeDocument(spec)
    /\ pc' = "done"
    /\ UNCHANGED <<registry, baseUrl, idx, paths, schemas, openApiToTRPCPaths>>

----------------------------------------------------------------------------
(* JSON.stringify, the URL search setter and the urlencoded parser *)

RECURSIVE natChars(_)
natChars(n) ==
    LET d == <<"0", "1", "2", "3", "4", "5", "6", "7", "8", "9">>[(n % 10) + 1]
    IN  IF n < 10 THEN <<d>> ELSE Append(natChars(n \div 10), d)

numberChars(n) == IF n < 0 THEN <<"-">> \o natChars(0 - n) ELSE natChars(n)

\* QuoteJSONString on text without control characters
RECURSIVE escapeChars(_)
escapeChars(cs) ==
    IF cs = <<>> THEN <<>>
    ELSE (IF Head(cs) \in {"\"", "\\"} THEN <<"\\", Head(cs)>> ELSE <<Head(cs)>>)
         \o escapeChars(Tail(cs))

quote(cs) == <<"\"">> \o escapeChars(cs) \o <<"\"">>

\* whether a value holds the array it is stored in
RECURSIVE isCyclic(_)
isCyclic(value) ==
    CASE value.t = "ref" -> TRUE
      [] value.t = "array" -> \E i \in 1..Len(value.a) : isCyclic(value.a[i])
      [] OTHER -> FALSE

RECURSIVE stringifyValue(_)
RECURSIVE stringifyElements(_)
stringifyElements(a) ==
    IF a = <<>> THEN <<>>
    ELSE stringifyValue(Head(a))
         \o (IF Len(a) > 1 THEN <<",">> ELSE <<>>)
         \o stringifyElements(Tail(a))

\* SerializeJSONProperty for an acyclic value
stringifyValue(value) ==
    CASE value.t = "string" -> quote(value.s)
      [] value.t = "number" -> numberChars(value.n)
      [] value.t = "NaN" -> <<"n", "u", "l", "l">>
      [] value.t = "null" -> <<"n", "u", "l", "l">>
      [] value.t = "boolean" ->
            IF value.b THEN <<"t", "r", "u", "e">> ELSE <<"f", "a", "l", "s", "e">>
      [] value.t = "array" -> <<"[">> \o stringifyElements(value.a) \o <<"]">>

RECURSIVE stringifyEntries(_)
stringifyEntries(data) ==
    IF data = <<>> THEN <<>>
    ELSE quote(Head(data).k) \o <<":">> \o stringifyValue(Head(data).v)
         \o (IF Len(data) > 1 THEN <<",">> ELSE <<>>)
         \o stringifyEntries(Tail(data))

\* JSON.stringify(data) for the object preprocessFormData returns:
\* [err |-> "none", text |-> ..] or the TypeError of a circular structure
JSONStringify(data) ==
    IF \E i \in 1..Len(data) : isCyclic(data[i].v)
    THEN [err |-> "TypeError: Converting circular structure to JSON", text |-> <<>>]
    ELSE [err |-> "none", text |-> <<"{">> \o stringifyEntries(data) \o <<"}">>]

\* the percent-encoded form of the characters in the query percent-encode
\* set of a special (http, https) URL
queryEncoded(c) ==
    CASE c = " " -> <<"%", "2", "0">>
      [] c = "\"" -> <<"%", "2", "2">>
      [] c = "#" -> <<"%", "2", "3">>
      [] c = "'" -> <<"%", "2", "7">>
      [] c = "<" -> <<"%", "3", "C">>
      [] c = ">" -> <<"%", "3", "E">>
      [] OTHER -> <<c>>

RECURSIVE queryEncode(_)
queryEncode(cs) ==
    IF cs = <<>> THEN <<>> ELSE queryEncoded(Head(cs)) \o queryEncode(Tail(cs))

\* the search setter of URL: url.search = value
setSearch(value) ==
    LET input == IF value # <<>> /\ value[1] = "?" THEN Tail(value) ELSE value
    IN  IF input = <<>> THEN <<>> ELSE <<"?">> \o queryEncode(input)

HexChars == DigitChars \cup {"A", "B", "C", "D", "E", "F", "a", "b", "c", "d", "e", "f"}

\* the character of a percent-encoded byte, for the bytes this model meets
byteChar(h1, h2) ==
    CASE <<h1, h2>> = <<"2", "0">> -> " "
      [] <<h1, h2>> = <<"2", "2">> -> "\""
      [] <<h1, h2>> = <<"2", "3">> -> "#"
      [] <<h1, h2>> = <<"2", "5">> -> "%"
      [] <<h1, h2>> = <<"2", "6">> -> "&"
      [] <<h1, h2>> = <<"2", "7">> -> "'"
      [] <<h1, h2>> \in {<<"2", "B">>, <<"2", "b">>} -> "+"
      [] <<h1, h2>> \in {<<"3", "D">>, <<"3", "d">>} -> "="

\* percent-decode, with + read as a space first (urlencoded parsing)
RECURSIVE formDecode(_)
formDecode(cs) ==
    IF cs = <<>> THEN <<>>
    ELSE IF Head(cs) = "+" THEN <<" ">> \o formDecode(Tail(cs))
    ELSE IF Head(cs) = "%" /\ Len(cs) >= 3 /\ cs[2] \in HexChars /\ cs[3] \in HexChars
    THEN <<byteChar(cs[2], cs[3])>> \o formDecode(SubSeq(cs, 4, Len(cs)))
    ELSE <<Head(cs)>> \o formDecode(Tail(cs))

\* the text before and after the first occurrence of a separator
indexOf(cs, c) ==
    IF \E i \in 1..Len(cs) : cs[i] = c
    THEN CHOOSE i \in 1..Len(cs) : cs[i] = c /\ \A j \in 1..(i - 1) : cs[j] # c
    ELSE 0

RECURSIVE splitOn(_, _)
splitOn(cs, c) ==
    LET i == indexOf(cs, c)
    IN  IF i = 0 THEN <<cs>>
        ELSE <<SubSeq(cs, 1, i - 1)>> \o splitOn(SubSeq(cs, i + 1, Len(cs)), c)

parsePair(cs) ==
    LET i == indexOf(cs, "=")
    IN  IF i = 0 THEN [key |-> formDecode(cs), value |-> <<>>]
        ELSE [key |-> formDecode(SubSeq(cs, 1, i - 1)),
              value |-> formDecode(SubSeq(cs, i + 1, Len(cs)))]

\* url.searchParams: the urlencoded parser on the query of a URL
searchParams(search) ==
    LET query == IF search # <<>> /\ search[1] = "?" THEN Tail(search) ELSE search
        parts == SelectSeq(splitOn(query, "&"), LAMBDA part : part # <<>>)
    IN  [i \in 1..Len(parts) |-> parsePair(parts[i])]

----------------------------------------------------------------------------
(* simpleTRPCOpenApiRequestHandler, lines 256-281 *)

\* opts.endpoint
Endpoint == "/internal"

\* String.prototype.toLowerCase on a request method
toLowerCase(method) ==
    CASE method = "GET" -> "get"
      [] method = "POST" -> "post"
      [] method = "PUT" -> "put"
      [] method = "DELETE" -> "delete"
      [] method = "PATCH" -> "patch"
      [] method = "OPTIONS" -> "options"
      [] method = "CONSTRUCTOR" -> "constructor"

\* opts.router._def.procedures[trpcPath]
procedureNamed(router, name) ==
    router[CHOOSE i \in 1..Len(router) : router[i].name = name]

NotFound == [status |-> 404, body |-> "Not found"]

\* doc.openApiToTRPCPaths[url.pathname]?.[method] (line 263).  A pathname
\* starts with "/", so the outer read finds own entries only; the inner
\* read finds the own entry, else the member the inner plain object
\* inherits under that name, else undefined.
trpcPathOf(table, pathname, method) ==
    IF pathname \notin DOMAIN table THEN Undefined
    ELSE IF method \in DOMAIN table[pathname]
    THEN [t |-> "string", s |-> table[pathname][method]]
    ELSE IF method \in ObjectPrototypeKeys THEN Inherited(method)
    ELSE Undefined

\* lines 274-280: the request handed to fetchRequestHandler
forwardOf(trpcPath, method, search, coerced) ==
    [kind |-> "forward",
     trpcPath |-> trpcPath,
     coerced |-> coerced,
     request |-> [pathname |-> Endpoint \o "/" \o trpcPath,
                  search |-> search,
                  method |-> IF method = "get" THEN "GET" ELSE "POST"]]

\* line 271, given what JSON.stringify did
withJson(trpcPath, method, coerced, json) ==
    IF json.err # "none" THEN [kind |-> "threw", err |-> json.err]
    ELSE forwardOf(trpcPath, method,
                   setSearch(<<"?", "i", "n", "p", "u", "t", "=">> \o json.text),
                   coerced)

\* lines 270-271, given what preprocessFormData did
withParsed(trpcPath, method, parsedSearchParams) ==
    IF parsedSearchParams.err # "none"
    THEN [kind |-> "threw", err |-> parsedSearchParams.err]
    ELSE withJson(trpcPath, method, parsedSearchParams.data,
                  JSONStringify(parsedSearchParams.data))

\* lines 268-280
withInput(trpcPath, method, input, search) ==
    IF input # Undefined
    THEN withParsed(trpcPath, method, preprocessFormData(searchParams(search), input))
    ELSE forwardOf(trpcPath, method, search, <<>>)

\* lines 264-280, given what the lookup of line 263 found: an absent or
\* empty name is answered 404; an inherited member is truthy and names no
\* procedure, so reading ._def of procedures[trpcPath] throws
withTrpcPath(trpcPath, router, request) ==
    IF trpcPath = Undefined THEN [kind |-> "notFound"]
    ELSE IF trpcPath.t = "inherited"
    THEN [kind |-> "threw", err |-> "TypeError: Cannot read properties of undefined"]
    ELSE IF trpcPath.s = "" THEN [kind |-> "notFound"]
    ELSE withInput(trpcPath.s, toLowerCase(request.method),
                   firstInput(procedureNamed(router, trpcPath.s)),
                   request.search)

\* what one call does before it returns its promise: answers 404 itself,
\* throws, or hands a rewritten request to fetchRequestHandler
\* (lines 260-280)
translate(table, router, request) ==
    withTrpcPath(trpcPathOf(table, request.pathname, toLowerCase(request.method)),
                 router, request)

\* the promise of fetchRequestHandler, not yet settled
CallPending == [kind |-> "pending"]

\* what the call leaves behind when it returns its promise: the requests
\* handed on and the state of the promise.  A forwarded call returns the
\* collaborator's promise (line 280), which settles later.
outcomeOf(step) ==
    [forwarded |-> IF step.kind = "forward" THEN <<step>> ELSE <<>>,
     out |-> CASE step.kind = "notFound" ->
                    [kind |-> "returned", response |-> NotFound]
               [] step.kind = "threw" ->
                    [kind |-> "threw", err |-> step.err]
               [] step.kind = "forward" -> CallPending]

RequestPaths == {"/api/x", "/api/y", "//x"}
RequestMethods == {"GET", "POST", "PUT", "DELETE", "PATCH", "OPTIONS", "CONSTRUCTOR"}
RequestSearches ==
    { <<>>,
      <<"?", "n", "a", "m", "e", "=", "A", "d", "a">>,
      <<"?", "n", "a", "m", "e", "=", "a", "%", "2", "6", "b">>,
      <<"?", "t", "a", "g", "s", "=", "1", "&", "t", "a", "g", "s", "=", "2">>,
      <<"?", "c", "o", "n", "s", "t", "r", "u", "c", "t", "o", "r", "=", "1">> }

\* how the promise of fetchRequestHandler settles: with the router's
\* response, or rejected
CollaboratorAnswers ==
    { [kind |-> "returned", response |-> [status |-> 200, body |-> "fetchRequestHandler"]],
      [kind |-> "returned", response |-> [status |-> 500, body |-> "fetchRequestHandler"]],
      [kind |-> "threw", err |-> "fetchRequestHandler rejected"] }

InitHandler == hCall = Undefined

\* one call of the handler on the document createTRPCOpenApiDoc returned,
\* up to the return of its promise; calls share no state, so one call per
\* behaviour shows them all
Handle ==
    /\ pc = "done"
    /\ hCall = Undefined
    /\ \E pathname \in RequestPaths, method \in RequestMethods,
          search \in RequestSearches :
         hCall' = [req |-> [pathname |-> pathname, method |-> method, search |-> search]]
                  @@ outcomeOf(translate(openApiToTRPCPaths, registry,
                                         [pathname |-> pathname, method |-> method,
                                          search |-> search]))
    /\ UNCHANGED docVars

\* the collaborator's promise settles and the handler's promise, which is
\* that promise (line 280), settles with it
Settle ==
    /\ hCall # Undefined
    /\ hCall.out = CallPending
    /\ \E answer \in CollaboratorAnswers : hCall' = [hCall EXCEPT !.out = answer]
    /\ UNCHANGED docVars

----------------------------------------------------------------------------
(* unwrap, one recursive call per step *)

UnwrapLeaves ==
    { ZString, ZNumber, ZBoolean, ZArray(ZNumber),
      ZObject([name |-> ZString]) }

InitUnwrap ==
    /\ uLeaf \in UnwrapLeaves
    /\ uArg = uLeaf
    /\ uDepth = 0
    /\ uCur = Undefined
    /\ uSteps = 0
    /\ uPc = "idle"

\* the caller builds the schema: s.optional(), s.nullable(), s.refine(..)
UnwrapWrap ==
    /\ uPc = "idle"
    /\ uDepth < MaxWrap
    /\ \E kind \in WrapperKinds : uArg' = Wrap(kind, uArg)
    /\ uDepth' = uDepth + 1
    /\ UNCHANGED <<uLeaf, uCur, uSteps, uPc>>

UnwrapCall ==
    /\ uPc = "idle"
    /\ uCur' = uArg
    /\ uSteps' = 0
    /\ uPc' = "running"
    /\ UNCHANGED <<uArg, uLeaf, uDepth>>

UnwrapRecurse ==
    /\ uPc = "running"
    /\ unwrapBranch(uCur) # "leaf"
    /\ uCur' = unwrapInner(uCur)
    /\ uSteps' = uSteps + 1
    /\ UNCHANGED <<uArg, uLeaf, uDepth, uPc>>

UnwrapReturn ==
    /\ uPc = "running"
    /\ unwrapBranch(uCur) = "leaf"
    /\ uPc' = "returned"
    /\ UNCHANGED <<uArg, uLeaf, uDepth, uCur, uSteps>>

----------------------------------------------------------------------------
(* Properties *)

\* C9: unwrap ends after as many recursive calls as there are optional,
\* nullable and effects layers, whatever their order, and returns the leaf
\* schema the layers were put around, whose discriminator is no wrapper
\* kind; a schema that is no wrapper is returned unchanged.
C9_UnwrapReturnsLeaf ==
    /\ uSteps <= uDepth
    /\ unwrap(uArg) = uLeaf
    /\ uPc = "returned" =>
          /\ uCur = uLeaf
          /\ getZodType(uCur) = getZodType(uLeaf)
          /\ getZodType(uCur) \notin WrapperKinds
          /\ uSteps = uDepth
    /\ (uPc = "returned" /\ uDepth = 0) => uCur = uArg

\* a call has returned on effects(nullable(optional(leaf)))
C9_Witness ==
    /\ uPc = "returned"
    /\ uDepth = 3
    /\ getZodType(uArg) = "ZodEffects"
    /\ getZodType(uArg.schema) = "ZodNullable"
    /\ getZodType(uArg.schema.innerType) = "ZodOptional"

\* C10: no top-level call of preprocessFormData ends with the failure
\* "Nested arrays are not supported", also for a property declared as an
\* array of arrays: array coercion always gets a defined key.
C10_NestedArraysNeverRaised ==
    fOut.err # "Nested arrays are not supported"

\* a call has returned for a source that supplies the array-of-arrays
\* property grid
C10_Witness ==
    /\ fOut.err = "none"
    /\ "grid" \in DOMAIN fSchema.shape
    /\ \E i \in 1..Len(fSource) : fSource[i].key = KeyGrid
    /\ HasKey(fOut.data, KeyGrid)

occurrencesOf(source, key) == SelectSeq(source, LAMBDA pair : pair.key = key)

\* C7: every call of preprocessFormData returns a mapping whose keys are
\* declared properties of the schema, undeclared keys being ignored; a
\* number property holds a number (the value of its digits), a boolean
\* property holds true exactly when its text is "true", and an array
\* property holds one coerced element per occurrence, in source order.
C7_CoercionFollowsSchema ==
    fOut # Pending =>
        /\ fOut.err = "none"
        /\ \A i \in 1..Len(fOut.data) :
              LET k == fOut.data[i].k
                  v == fOut.data[i].v
                  occ == occurrencesOf(fSource, k)
                  last == occ[Len(occ)].value
              IN  /\ Join(k) \in DOMAIN fSchema.shape
                  /\ LET kind == getZodType(unwrap(fSchema.shape[Join(k)]))
                     IN  /\ kind = "ZodNumber" =>
                               /\ v.t \in {"number", "NaN"}
                               /\ AllDigits(last) => v = Num(DigitsValue(last))
                         /\ kind = "ZodBoolean" => v = Bool(last = TextTrue)
                         /\ kind = "ZodArray" =>
                               /\ v.t = "array"
                               /\ Len(v.a) = Len(occ)

\* the (path, method) pairs the model's procedures declare
AllPaths == {"/x", "/y"}

\* C3: createTRPCOpenApiDoc returns no document for a router that holds an
\* annotated procedure whose method is get, put or delete and whose input
\* declares the content type multipart/form-data.
C3_MultipartOnlyOnPost ==
    pc = "done" =>
        \A i \in 1..Len(registry) :
            ~ /\ hasOpenapiMeta(registry[i])
              /\ registry[i].meta.openapi.method \in {"get", "put", "delete"}
              /\ processProcedureSchema(firstInput(registry[i])) # Undefined
              /\ inputContentTypeOf(processProcedureSchema(firstInput(registry[i])))
                    = "multipart/form-data"

\* the inline top-level property schemas of an operation's multipart body
multipartProperties(operation) ==
    IF "requestBody" \in DOMAIN operation
       /\ "multipart/form-data" \in DOMAIN operation.requestBody.content
       /\ "schema" \in DOMAIN operation.requestBody.content["multipart/form-data"]
       /\ "properties" \in
             DOMAIN operation.requestBody.content["multipart/form-data"].schema
    THEN operation.requestBody.content["multipart/form-data"].schema.properties
    ELSE <<>>

parametersOf(operation) ==
    IF "parameters" \in DOMAIN operation THEN operation.parameters ELSE <<>>

\* C8: in the returned document no inline schema of a request parameter
\* and no inline top-level property schema of a multipart request body has
\* a type array containing "null", for every path and every method, and
\* every GET parameter whose schema had such a union carries
\* required = false.
C8_NoNullUnions ==
    pc = "done" =>
        \A p \in DOMAIN spec.paths : \A m \in DOMAIN spec.paths[p] :
            /\ \A k \in DOMAIN parametersOf(spec.paths[p][m]) :
                  /\ ~hasNullUnion(parametersOf(spec.paths[p][m])[k].schema)
                  /\ hasNullUnion(renderSchema(
                         paths[p][m].requestParams.query.shape[k], schemas))
                        => /\ "required" \in DOMAIN parametersOf(spec.paths[p][m])[k]
                           /\ parametersOf(spec.paths[p][m])[k].required = FALSE
            /\ \A k \in DOMAIN multipartProperties(spec.paths[p][m]) :
                  ~hasNullUnion(multipartProperties(spec.paths[p][m])[k])

\* C4: a procedure without routing metadata contributes nothing: every entry
\* of the Path Table and every registered component schema comes from an
\* annotated procedure, no name of an unannotated procedure is a value of
\* openApiToTRPCPaths, and the returned document has exactly the paths and
\* components of those tables.
C4_UnannotatedContributeNothing ==
    /\ \A p \in DOMAIN paths : \A m \in DOMAIN paths[p] :
          \E i \in 1..Len(registry) :
              /\ hasOpenapiMeta(registry[i])
              /\ registry[i].meta = Meta(p, m)
              /\ paths[p][m] = pathItemOf(registry[i])
    /\ \A title \in DOMAIN schemas :
          \E i \in 1..Len(registry) :
              /\ hasOpenapiMeta(registry[i])
              /\ schemas[title] \in { processProcedureSchema(firstInput(registry[i])),
                                      processProcedureSchema(registry[i].output) }
              /\ openApiOf(schemas[title]).title = title
    /\ \A key \in DOMAIN openApiToTRPCPaths : \A m \in DOMAIN openApiToTRPCPaths[key] :
          \E i \in 1..Len(registry) :
              /\ hasOpenapiMeta(registry[i])
              /\ registry[i].name = openApiToTRPCPaths[key][m]
    /\ pc = "done" =>
          /\ DOMAIN spec.paths = DOMAIN paths
          /\ \A p \in DOMAIN paths : DOMAIN spec.paths[p] = DOMAIN paths[p]
          /\ DOMAIN spec.components.schemas = DOMAIN schemas

\* a document was returned for a router that holds an annotated procedure
\* and an unannotated one whose input carries a component title
C4_Witness ==
    /\ pc = "done"
    /\ \E i, j \in 1..Len(registry) :
          /\ ~hasOpenapiMeta(registry[i])
          /\ hasTitle(firstInput(registry[i]))
          /\ hasOpenapiMeta(registry[j])
    /\ "Search" \notin DOMAIN schemas

\* C5: after every step of the build pass paths[p][m] is defined exactly
\* when openApiToTRPCPaths[basePath + p][m] is, the name stored there is a
\* procedure already visited whose routing metadata is {p, m} and whose
\* path item is the one stored at paths[p][m], and the reverse lookup
\* table has no other keys.
C5_TablesConsistent ==
    pc \in {"build", "sanitize", "done"} =>
        /\ \A p \in AllPaths, m \in Methods :
              /\ has2(paths, p, m)
                    <=> has2(openApiToTRPCPaths, urlPathname(baseUrl) \o p, m)
              /\ has2(paths, p, m) =>
                    \E i \in 1..(idx - 1) :
                        /\ registry[i].name
                              = openApiToTRPCPaths[urlPathname(baseUrl) \o p][m]
                        /\ hasOpenapiMeta(registry[i])
                        /\ registry[i].meta = Meta(p, m)
                        /\ pathItemOf(registry[i]) = paths[p][m]
        /\ DOMAIN paths \subseteq AllPaths
        /\ DOMAIN openApiToTRPCPaths
              = { urlPathname(baseUrl) \o p : p \in DOMAIN paths }

\* the build pass has ended on two procedures that declare the same path
\* and method with different path items
C5_Witness ==
    /\ pc = "done"
    /\ Len(registry) >= 2
    /\ hasOpenapiMeta(registry[1])
    /\ registry[1].meta = registry[2].meta
    /\ pathItemOf(registry[1]) # pathItemOf(registry[2])

\* C2 as stated: every annotated procedure P with metadata {p, m} is the
\* value of openApiToTRPCPaths[b + p][m], whatever else the router holds.
C2_EveryAnnotatedResolves ==
    pc = "done" =>
        \A i \in 1..Len(registry) :
            hasOpenapiMeta(registry[i]) =>
                LET p == registry[i].meta.openapi.path
                    m == registry[i].meta.openapi.method
                    b == IF baseUrl.path = "" THEN "/" ELSE baseUrl.path
                IN  /\ has2(openApiToTRPCPaths, b \o p, m)
                    /\ openApiToTRPCPaths[b \o p][m] = registry[i].name

\* C2, amended: an annotated procedure P with metadata {p, m} that no later
\* procedure of the router shares its path and method with is the value of
\* openApiToTRPCPaths[b + p][m]; under the base https://h/api, metadata
\* {"/x", "get"} is found at openApiToTRPCPaths["/api/x"]["get"].
C2_LastAnnotatedResolves ==
    pc = "done" =>
        \A i \in 1..Len(registry) :
            ( /\ hasOpenapiMeta(registry[i])
              /\ \A j \in (i + 1)..Len(registry) : registry[j].meta # registry[i].meta )
            =>
                LET p == registry[i].meta.openapi.path
                    m == registry[i].meta.openapi.method
                    b == IF baseUrl.path = "" THEN "/" ELSE baseUrl.path
                IN  /\ has2(openApiToTRPCPaths, b \o p, m)
                    /\ openApiToTRPCPaths[b \o p][m] = registry[i].name
                    /\ (baseUrl.path = "/api" /\ p = "/x" /\ m = "get") =>
                          openApiToTRPCPaths["/api/x"]["get"] = registry[i].name

\* a document was returned under https://h/api for a router of two
\* procedures, the first annotated {"/x", "get"}, the second another route
C2_Witness ==
    /\ pc = "done"
    /\ baseUrl.path = "/api"
    /\ Len(registry) = 2
    /\ registry[1].meta = Meta("/x", "get")
    /\ registry[2].meta = Meta("/x", "post")
    /\ openApiToTRPCPaths["/api/x"]["get"] = "greet"

\* C1: a request whose (pathname, lower-cased method) has no entry in
\* openApiToTRPCPaths is answered with status 404 and nothing is forwarded;
\* a request that has an entry is forwarded exactly once and the call's
\* outcome is the collaborator's, pending until the collaborator answers.
C1_NotFoundOrForwardedOnce ==
    hCall # Undefined =>
        IF ~has2(openApiToTRPCPaths, hCall.req.pathname, toLowerCase(hCall.req.method))
        THEN /\ hCall.out.kind = "returned"
             /\ hCall.out.response.status = 404
             /\ hCall.forwarded = <<>>
        ELSE /\ Len(hCall.forwarded) = 1
             /\ hCall.out \in {CallPending} \cup CollaboratorAnswers

\* the query a forwarded request must carry for the coerced parameters
expectedQuery(coerced) ==
    <<[key |-> <<"i", "n", "p", "u", "t">>, value |-> JSONStringify(coerced.data).text]>>

\* C6: the request handed to the forwarding collaborator has the path
\* "{endpoint}/n" for the resolved name n, the method GET for an inbound
\* GET and POST otherwise, and, when the procedure declares an input
\* schema, a query string of exactly one parameter, input, whose value is
\* the JSON serialization of the coerced query parameters.
C6_ForwardedRequest ==
    (hCall # Undefined /\ hCall.forwarded # <<>>) =>
        /\ hCall.forwarded[1].request.pathname
              = "/internal/" \o openApiToTRPCPaths[hCall.req.pathname]
                                                  [toLowerCase(hCall.req.method)]
        /\ hCall.forwarded[1].request.method
              = (IF hCall.req.method = "GET" THEN "GET" ELSE "POST")
        /\ firstInput(procedureNamed(registry, hCall.forwarded[1].trpcPath)) # Undefined
              => searchParams(hCall.forwarded[1].request.search)
                    = expectedQuery(preprocessFormData(
                          searchParams(hCall.req.search),
                          firstInput(procedureNamed(registry, hCall.forwarded[1].trpcPath))))

----------------------------------------------------------------------------
(* Specifications *)

IdleUnwrap ==
    /\ uLeaf = Undefined /\ uArg = Undefined /\ uDepth = 0
    /\ uCur = Undefined /\ uSteps = 0 /\ uPc = "off"
IdleForm == fSchema = Undefined /\ fSource = <<>> /\ fOut = Pending
IdleDoc ==
    /\ pc = "off" /\ registry = <<>> /\ baseUrl = Undefined /\ idx = 0
    /\ paths = <<>> /\ schemas = <<>> /\ openApiToTRPCPaths = <<>> /\ spec = <<>>
IdleHandler == InitHandler

NextUnwrap ==
    \/ UnwrapWrap /\ UNCHANGED <<formVars, docVars, handlerVars>>
    \/ UnwrapCall /\ UNCHANGED <<formVars, docVars, handlerVars>>
    \/ UnwrapRecurse /\ UNCHANGED <<formVars, docVars, handlerVars>>
    \/ UnwrapReturn /\ UNCHANGED <<formVars, docVars, handlerVars>>

InitSpecUnwrap == InitUnwrap /\ IdleForm /\ IdleDoc /\ IdleHandler

SpecUnwrap == InitSpecUnwrap /\ [][NextUnwrap]_vars

NextForm ==
    \/ FormAppend /\ UNCHANGED <<unwrapVars, docVars, handlerVars>>
    \/ FormCall /\ UNCHANGED <<unwrapVars, docVars, handlerVars>>

InitSpecForm == IdleUnwrap /\ InitForm /\ IdleDoc /\ IdleHandler

SpecForm == InitSpecForm /\ [][NextForm]_vars

NextDoc ==
    \/ RouterAdd /\ UNCHANGED <<unwrapVars, formVars, handlerVars>>
    \/ CreateDocCall /\ UNCHANGED <<unwrapVars, formVars, handlerVars>>
    \/ BuildStep /\ UNCHANGED <<unwrapVars, formVars, handlerVars>>
    \/ Assemble /\ UNCHANGED <<unwrapVars, formVars, handlerVars>>
    \/ SanitizeAndReturn /\ UNCHANGED <<unwrapVars, formVars, handlerVars>>

InitSpecDoc == IdleUnwrap /\ IdleForm /\ InitDoc /\ IdleHandler

SpecDoc == InitSpecDoc /\ [][NextDoc]_vars

NextHandler ==
    \/ RouterAdd /\ UNCHANGED <<unwrapVars, formVars, handlerVars>>
    \/ CreateDocCall /\ UNCHANGED <<unwrapVars, formVars, handlerVars>>
    \/ BuildStep /\ UNCHANGED <<unwrapVars, formVars, handlerVars>>
    \/ Assemble /\ UNCHANGED <<unwrapVars, formVars, handlerVars>>
    \/ SanitizeAndReturn /\ UNCHANGED <<unwrapVars, formVars, handlerVars>>
    \/ Handle /\ UNCHANGED <<unwrapVars, formVars>>
    \/ Settle /\ UNCHANGED <<unwrapVars, formVars>>

InitSpecHandler == IdleUnwrap /\ IdleForm /\ InitDoc /\ InitHandler

SpecHandler == InitSpecHandler /\ [][NextHandler]_vars

====
